---- MODULE Spec2Model ----
(***************************************************************************)
(* Model of fs/nilfs2/atime.c: the atime file of NILFS, a metadata file    *)
(* holding one struct timespec per inode, packed in blocks that carry a    *)
(* count of the live entries.                                              *)
(*                                                                         *)
(* Every thread runs one of nilfs_atime_fill_inode,                        *)
(* nilfs_atime_update_from_inode and nilfs_atime_delete_inode_entry, one   *)
(* step per shared-memory access / call to the MDT layer; pc[t] names the  *)
(* source line the thread is about to execute.                             *)
(***************************************************************************)
EXTENDS Integers, Sequences, FiniteSets, TLC

(***************************************************************************)
(* Bounds of the model.                                                    *)
(***************************************************************************)
\* number of operations invoked in one behaviour
MaxOps == 3
\* largest inode number the addressing functions are applied to
MaxId == 70

\* threads calling into the atime file
Threads == {1, 2}
\* the thread that calls when operations run one at a time
Serial == {1}
\* inode numbers used by the callers: 0 and 30 share block 0, 31 is in block 1
Inos == {0, 30, 31}

(***************************************************************************)
(* struct timespec and the block layout (lines 109-121).                   *)
(***************************************************************************)
timespec(s, n) == [tv_sec |-> s, tv_nsec |-> n]

\* times an inode carries in i_mtime / i_atime; (0,0) is the epoch
Times == {timespec(0, 0), timespec(0, 7), timespec(1000, 0)}
\* i_atime of an inode that no operation has set yet
NoTime == timespec(-1, -1)
Fields == {"tv_sec", "tv_nsec"}
OtherField(f) == IF f = "tv_sec" THEN "tv_nsec" ELSE "tv_sec"

\* the block size written in NILFS_ENTRIES_IN_ATIME_BLOCK
BlockSize == 512
\* sizeof(struct nilfs_atime_block_header): one packed __u64
HeaderSize == 8
\* sizeof(struct timespec) with 64-bit tv_sec and tv_nsec
TimespecSize == 16

NILFS_ENTRIES_IN_ATIME_BLOCK == (BlockSize - HeaderSize) \div TimespecSize

(***************************************************************************)
(* __u64 arithmetic of header.count: four 16-bit limbs, least significant  *)
(* first, so that ++ and -- wrap modulo 2^64 as the C type does.           *)
(***************************************************************************)
Limb == 2 ^ 16
LimbIdx == 1 .. 4
U64OfNat(n) == [j \in LimbIdx |-> IF j = 1 THEN n ELSE 0]
U64Zero == U64OfNat(0)
U64Max == [j \in LimbIdx |-> Limb - 1]

\* ++c
U64Inc(c) ==
    IF \A j \in LimbIdx : c[j] = Limb - 1
    THEN U64Zero
    ELSE LET i == CHOOSE k \in LimbIdx :
                      /\ c[k] # Limb - 1
                      /\ \A j \in LimbIdx : j < k => c[j] = Limb - 1
         IN  [j \in LimbIdx |-> IF j < i THEN 0
                                ELSE IF j = i THEN c[j] + 1 ELSE c[j]]

\* --c
U64Dec(c) ==
    IF \A j \in LimbIdx : c[j] = 0
    THEN U64Max
    ELSE LET i == CHOOSE k \in LimbIdx :
                      /\ c[k] # 0
                      /\ \A j \in LimbIdx : j < k => c[j] = 0
         IN  [j \in LimbIdx |-> IF j < i THEN Limb - 1
                                ELSE IF j = i THEN c[j] - 1 ELSE c[j]]

(***************************************************************************)
(* Addressing (lines 135-144).                                             *)
(***************************************************************************)
\* variants of the addressing that divide by a neighbour of the entry count
get_block_number_short(inode_num) ==
    inode_num \div (NILFS_ENTRIES_IN_ATIME_BLOCK - 1)
get_entry_in_block_long(inode_num) ==
    inode_num % (NILFS_ENTRIES_IN_ATIME_BLOCK + 1)

nilfs_atime_get_block_number(inode_num) ==
    inode_num \div NILFS_ENTRIES_IN_ATIME_BLOCK

\* the index of the entry nilfs_atime_get_entry_in_block points to
nilfs_atime_get_entry_in_block(inode_num) ==
    inode_num % NILFS_ENTRIES_IN_ATIME_BLOCK

Offsets == 0 .. (NILFS_ENTRIES_IN_ATIME_BLOCK - 1)
Blocks == {nilfs_atime_get_block_number(i) : i \in Inos}

\* a variant of nilfs_atime_block_init whose memset leaves the header out
nilfs_atime_block_init_entries_only ==
    [header  |-> [count |-> U64OfNat(1)],
     entries |-> [i \in {} |-> timespec(0, 0)]]

\* A block is its header and the array entries[]; the array is kept as the
\* elements that are not all-zero bytes, every other element being (0,0).
\* memset(atime_block, 0, sizeof(*atime_block))
nilfs_atime_block_init ==
    [header  |-> [count |-> U64Zero],
     entries |-> [i \in {} |-> timespec(0, 0)]]

\* atime_block->entries[i]
EntryAt(blk, i) ==
    IF i \in DOMAIN blk.entries THEN blk.entries[i] ELSE timespec(0, 0)

\* the block with atime_block->entries[i] = e
WithEntry(blk, i, e) ==
    LET old == blk.entries
        dom == IF e = timespec(0, 0) THEN DOMAIN old \ {i}
                                     ELSE DOMAIN old \cup {i}
    IN  [blk EXCEPT !.entries = [j \in dom |-> IF j = i THEN e ELSE old[j]]]

(***************************************************************************)
(* Error codes nilfs_atime_get_block documents (lines 161-163).            *)
(***************************************************************************)
EIO == 5
ENOMEM == 12
MdtErrors == {-EIO, -ENOMEM}

\* no buffer head: block numbers are not negative
NoBh == -1
NULL == "NULL"
\* mi_sem held by no thread
NoWriter == 0

VARIABLES
    \* per thread: control and the locals of the running function
    pc,             \* the source line about to be executed, or "idle" / "ret"
    op,             \* the interface function running
    atimefile,      \* the atimefile argument: NULL, "inode" (== inode), "atime"
    inode,          \* the inode argument: [i_ino, i_mtime, i_atime]
    ret,            \* ret of nilfs_atime_get_block
    bh,             \* block_bh of nilfs_atime_get_block
    err,            \* err of the interface function
    block_bh,       \* block_bh of the interface function
    cnt,            \* the value of header.count loaded by ++ / --
    needs_release,  \* needs_release of nilfs_atime_delete_inode_entry
    pend,           \* the field of a struct timespec copy not copied yet
    retval,         \* the value returned to the caller
    calls,          \* the calls the running function has made to other layers
    \* the atime file
    mi_sem,         \* NILFS_MDT(atimefile)->mi_sem: its writer, or NoWriter
    exists,         \* the blocks the MDT maps
    mem,            \* the memory of each block's buffer
    b_count,        \* references held on each block's buffer head
    kmapped,        \* kmap count of each block's page
    bh_dirty,       \* buffer heads marked dirty
    mdt_dirty,      \* the atime file marked dirty
    \* bookkeeping
    nops,           \* operations invoked so far
    pre,            \* per thread: the atime file and i_atime at the call
    last_update,    \* per inode number: the last update that returned 0
    a_ids,          \* addressing: the pair of inode numbers
    a_res           \* addressing: the (block number, entry index) of each

locals == <<pc, op, atimefile, inode, ret, bh, err, block_bh, cnt,
            needs_release, pend, retval, calls>>
store == <<mi_sem, exists, mem, b_count, kmapped, bh_dirty, mdt_dirty>>
addr == <<a_ids, a_res>>
book == <<nops, pre, last_update>>
vars == <<locals, store, book, addr>>

Call(fn, arg, res) == [fn |-> fn, arg |-> arg, res |-> res]
Log(t, fn, arg, res) == calls' = [calls EXCEPT ![t] = Append(@, Call(fn, arg, res))]

\* the block and the entry an operation of thread t addresses
BlockOf(t) == nilfs_atime_get_block_number(inode[t].i_ino)
EntryOf(t) == nilfs_atime_get_entry_in_block(inode[t].i_ino)

IdleInode == [i_ino |-> 0, i_mtime |-> NoTime, i_atime |-> NoTime]

\* what a caller sees of the atime file when it calls, and the i_atime of
\* the inode it passes
Snapshot(atime) ==
    [exists |-> exists, mem |-> mem, bh_dirty |-> bh_dirty,
     mdt_dirty |-> mdt_dirty, i_atime |-> atime]
\* no call in progress: nothing is kept
NoSnapshot ==
    [exists |-> [b \in Blocks |-> FALSE],
     mem |-> [b \in Blocks |-> nilfs_atime_block_init],
     bh_dirty |-> [b \in Blocks |-> FALSE],
     mdt_dirty |-> FALSE, i_atime |-> NoTime]

\* what is kept of an update that returned 0: the i_atime it was passed and
\* whether the entry of its inode was other than (0,0) at the call; a call
\* of update or delete for the inode number discards it
NoUpdate == [atime |-> NoTime, present |-> FALSE]
UpdateDone(t) ==
    [atime   |-> inode[t].i_atime,
     present |-> /\ pre[t].exists[BlockOf(t)]
                 /\ EntryAt(pre[t].mem[BlockOf(t)], EntryOf(t))
                        # timespec(0, 0)]

\* no function is running
InitLocals ==
    /\ pc = [t \in Threads |-> "idle"]
    /\ op = [t \in Threads |-> "none"]
    /\ atimefile = [t \in Threads |-> NULL]
    /\ inode = [t \in Threads |-> IdleInode]
    /\ ret = [t \in Threads |-> 0]
    /\ bh = [t \in Threads |-> NoBh]
    /\ err = [t \in Threads |-> 0]
    /\ block_bh = [t \in Threads |-> NoBh]
    /\ cnt = [t \in Threads |-> U64Zero]
    /\ needs_release = [t \in Threads |-> FALSE]
    /\ pend = [t \in Threads |-> "none"]
    /\ retval = [t \in Threads |-> 0]
    /\ calls = [t \in Threads |-> <<>>]
    /\ nops = 0
    /\ pre = [t \in Threads |-> NoSnapshot]
    /\ last_update = [i \in Inos |-> NoUpdate]

\* the atime file with no block
EmptyFile ==
    /\ mi_sem = NoWriter
    /\ exists = [b \in Blocks |-> FALSE]
    /\ mem = [b \in Blocks |-> nilfs_atime_block_init]
    /\ b_count = [b \in Blocks |-> 0]
    /\ kmapped = [b \in Blocks |-> 0]
    /\ bh_dirty = [b \in Blocks |-> FALSE]
    /\ mdt_dirty = FALSE

InitStore ==
    /\ InitLocals
    /\ EmptyFile

Init ==
    /\ InitStore
    /\ a_ids = <<0, 0>>
    /\ a_res = <<>>

(***************************************************************************)
(* The MDT layer (mdt.c), as atime.c uses it.                              *)
(***************************************************************************)
\* nilfs_mdt_get_block(atimefile, b, 1, nilfs_atime_block_init, &block_bh)
\* succeeding: a missing block is created and initialised, and the caller
\* gets a reference on the block's buffer head
nilfs_mdt_get_block(b) ==
    /\ exists' = [exists EXCEPT ![b] = TRUE]
    /\ mem' = IF exists[b] THEN mem
              ELSE [mem EXCEPT ![b] = nilfs_atime_block_init]
    /\ b_count' = [b_count EXCEPT ![b] = @ + 1]

\* nilfs_mdt_delete_block(atimefile, b): the block leaves the file
nilfs_mdt_delete_block(b) ==
    /\ exists' = [exists EXCEPT ![b] = FALSE]
    /\ bh_dirty' = [bh_dirty EXCEPT ![b] = FALSE]

(***************************************************************************)
(* Callers: an inode and an atime file are handed to one of the three      *)
(* interface functions.                                                    *)
(***************************************************************************)
Enter(t, o, af, ino, mtime, atime, first) ==
    /\ pc[t] = "idle"
    /\ nops < MaxOps
    /\ nops' = nops + 1
    /\ op' = [op EXCEPT ![t] = o]
    /\ atimefile' = [atimefile EXCEPT ![t] = af]
    /\ inode' = [inode EXCEPT ![t] =
                    [i_ino |-> ino, i_mtime |-> mtime, i_atime |-> atime]]
    /\ calls' = [calls EXCEPT ![t] = <<>>]
    /\ pc' = [pc EXCEPT ![t] = first]
    /\ pre' = [pre EXCEPT ![t] = Snapshot(atime)]
    /\ last_update' = IF o \in {"update", "delete"}
                      THEN [last_update EXCEPT ![ino] = NoUpdate]
                      ELSE last_update
    /\ UNCHANGED <<ret, bh, err, block_bh, cnt, needs_release, pend, retval>>
    /\ UNCHANGED <<store, addr>>

CallFill(t, af, ino, mtime) ==
    Enter(t, "fill", af, ino, mtime, NoTime, "fill_225")

CallUpdate(t, ino, atime) ==
    Enter(t, "update", "atime", ino, NoTime, atime, "gb_175")

CallDelete(t, ino) ==
    Enter(t, "delete", "atime", ino, NoTime, NoTime, "gb_175")

\* the caller takes the result; the frame of the function is gone
Return(t) ==
    /\ pc[t] = "ret"
    /\ pc' = [pc EXCEPT ![t] = "idle"]
    /\ op' = [op EXCEPT ![t] = "none"]
    /\ atimefile' = [atimefile EXCEPT ![t] = NULL]
    /\ inode' = [inode EXCEPT ![t] = IdleInode]
    /\ ret' = [ret EXCEPT ![t] = 0]
    /\ bh' = [bh EXCEPT ![t] = NoBh]
    /\ err' = [err EXCEPT ![t] = 0]
    /\ block_bh' = [block_bh EXCEPT ![t] = NoBh]
    /\ cnt' = [cnt EXCEPT ![t] = U64Zero]
    /\ needs_release' = [needs_release EXCEPT ![t] = FALSE]
    /\ pend' = [pend EXCEPT ![t] = "none"]
    /\ retval' = [retval EXCEPT ![t] = 0]
    /\ calls' = [calls EXCEPT ![t] = <<>>]
    /\ pre' = [pre EXCEPT ![t] = NoSnapshot]
    /\ last_update' = IF op[t] = "update" /\ retval[t] = 0
                      THEN [last_update EXCEPT ![inode[t].i_ino] = UpdateDone(t)]
                      ELSE last_update
    /\ UNCHANGED <<store, nops, addr>>

\* a step of thread t from line `from` to line `to`
Goto(t, from, to) ==
    /\ pc[t] = from
    /\ pc' = [pc EXCEPT ![t] = to]

(***************************************************************************)
(* nilfs_atime_get_block (lines 165-202).                                  *)
(***************************************************************************)
AfterGetBlock(t) ==
    CASE op[t] = "fill" -> "fill_231"
      [] op[t] = "update" -> "upd_255"
      [] op[t] = "delete" -> "del_275"

\* a variant of line 175 that does not wait for mi_sem
get_block_down_write_unlocked(t) ==
    /\ Goto(t, "gb_175", "gb_178")
    /\ mi_sem' = t
    /\ Log(t, "down_write", "mi_sem", 0)
    /\ UNCHANGED <<op, atimefile, inode, ret, bh, err, block_bh, cnt,
                   needs_release, pend, retval>>
    /\ UNCHANGED <<exists, mem, b_count, kmapped, bh_dirty, mdt_dirty>>
    /\ UNCHANGED <<book, addr>>

\* line 175: down_write(&NILFS_MDT(atimefile)->mi_sem)
get_block_down_write(t) ==
    /\ Goto(t, "gb_175", "gb_178")
    /\ mi_sem = NoWriter
    /\ mi_sem' = t
    /\ Log(t, "down_write", "mi_sem", 0)
    /\ UNCHANGED <<op, atimefile, inode, ret, bh, err, block_bh, cnt,
                   needs_release, pend, retval>>
    /\ UNCHANGED <<exists, mem, b_count, kmapped, bh_dirty, mdt_dirty>>
    /\ UNCHANGED <<book, addr>>

\* line 180: the MDT calls the init_block argument, nilfs_atime_block_init,
\* on a block it creates
InitCallback(b) ==
    IF exists[b] THEN <<>> ELSE <<Call("nilfs_atime_block_init", b, 0)>>

\* lines 178-180, the MDT returns the block
get_block_mdt_ok(t) ==
    /\ Goto(t, "gb_178", "gb_186")
    /\ nilfs_mdt_get_block(BlockOf(t))
    /\ bh' = [bh EXCEPT ![t] = BlockOf(t)]
    /\ ret' = [ret EXCEPT ![t] = 0]
    /\ calls' = [calls EXCEPT ![t] =
                    @ \o InitCallback(BlockOf(t))
                      \o <<Call("nilfs_mdt_get_block", BlockOf(t), 0)>>]
    /\ UNCHANGED <<op, atimefile, inode, err, block_bh, cnt,
                   needs_release, pend, retval>>
    /\ UNCHANGED <<mi_sem, kmapped, bh_dirty, mdt_dirty>>
    /\ UNCHANGED <<book, addr>>

\* a variant of lines 181-183 that returns ret instead of going to out
get_block_mdt_fail_returns(t, e) ==
    /\ Goto(t, "gb_178", AfterGetBlock(t))
    /\ err' = [err EXCEPT ![t] = e]
    /\ Log(t, "nilfs_mdt_get_block", BlockOf(t), e)
    /\ UNCHANGED <<op, atimefile, inode, ret, bh, block_bh, cnt,
                   needs_release, pend, retval>>
    /\ UNCHANGED <<store, book, addr>>

\* lines 178-183, the MDT fails with e: goto out
get_block_mdt_fail(t, e) ==
    /\ Goto(t, "gb_178", "gb_200")
    /\ ret' = [ret EXCEPT ![t] = e]
    /\ Log(t, "nilfs_mdt_get_block", BlockOf(t), e)
    /\ UNCHANGED <<op, atimefile, inode, bh, err, block_bh, cnt,
                   needs_release, pend, retval>>
    /\ UNCHANGED <<store, book, addr>>

\* lines 186-187: kmap(block_bh->b_page)
get_block_kmap(t) ==
    /\ Goto(t, "gb_186", "gb_190")
    /\ kmapped' = [kmapped EXCEPT ![bh[t]] = @ + 1]
    /\ Log(t, "kmap", bh[t], 0)
    /\ UNCHANGED <<op, atimefile, inode, ret, bh, err, block_bh, cnt,
                   needs_release, pend, retval>>
    /\ UNCHANGED <<mi_sem, exists, mem, b_count, bh_dirty, mdt_dirty>>
    /\ UNCHANGED <<book, addr>>

\* a variant of line 190 that leaves the buffer as it is
get_block_mark_buffer_dirty_skipped(t) ==
    /\ Goto(t, "gb_190", "gb_191")
    /\ UNCHANGED <<op, atimefile, inode, ret, bh, err, block_bh, cnt,
                   needs_release, pend, retval, calls>>
    /\ UNCHANGED <<store, book, addr>>

\* line 190: mark_buffer_dirty(block_bh)
get_block_mark_buffer_dirty(t) ==
    /\ Goto(t, "gb_190", "gb_191")
    /\ bh_dirty' = [bh_dirty EXCEPT ![bh[t]] = TRUE]
    /\ Log(t, "mark_buffer_dirty", bh[t], 0)
    /\ UNCHANGED <<op, atimefile, inode, ret, bh, err, block_bh, cnt,
                   needs_release, pend, retval>>
    /\ UNCHANGED <<mi_sem, exists, mem, b_count, kmapped, mdt_dirty>>
    /\ UNCHANGED <<book, addr>>

\* line 191: nilfs_mdt_mark_dirty(atimefile)
get_block_mdt_mark_dirty(t) ==
    /\ Goto(t, "gb_191", "gb_194")
    /\ mdt_dirty' = TRUE
    /\ Log(t, "nilfs_mdt_mark_dirty", "atimefile", 0)
    /\ UNCHANGED <<op, atimefile, inode, ret, bh, err, block_bh, cnt,
                   needs_release, pend, retval>>
    /\ UNCHANGED <<mi_sem, exists, mem, b_count, kmapped, bh_dirty>>
    /\ UNCHANGED <<book, addr>>

\* lines 194-197: *block_out = atime_block; *block_bh_out = block_bh
get_block_store_out(t) ==
    /\ Goto(t, "gb_194", "gb_200")
    /\ block_bh' = [block_bh EXCEPT ![t] = bh[t]]
    /\ UNCHANGED <<op, atimefile, inode, ret, bh, err, cnt,
                   needs_release, pend, retval, calls>>
    /\ UNCHANGED <<store, book, addr>>

\* a variant of lines 199-201 that returns with mi_sem still held
get_block_up_write_kept(t) ==
    /\ Goto(t, "gb_200", AfterGetBlock(t))
    /\ err' = [err EXCEPT ![t] = ret[t]]
    /\ bh' = [bh EXCEPT ![t] = NoBh]
    /\ ret' = [ret EXCEPT ![t] = 0]
    /\ Log(t, "up_write", "mi_sem", 0)
    /\ UNCHANGED <<op, atimefile, inode, block_bh, cnt,
                   needs_release, pend, retval>>
    /\ UNCHANGED <<store, book, addr>>

\* lines 199-201: up_write(&NILFS_MDT(atimefile)->mi_sem); return ret
get_block_up_write(t) ==
    /\ Goto(t, "gb_200", AfterGetBlock(t))
    /\ mi_sem' = NoWriter
    /\ err' = [err EXCEPT ![t] = ret[t]]
    /\ bh' = [bh EXCEPT ![t] = NoBh]
    /\ ret' = [ret EXCEPT ![t] = 0]
    /\ Log(t, "up_write", "mi_sem", 0)
    /\ UNCHANGED <<op, atimefile, inode, block_bh, cnt,
                   needs_release, pend, retval>>
    /\ UNCHANGED <<exists, mem, b_count, kmapped, bh_dirty, mdt_dirty>>
    /\ UNCHANGED <<book, addr>>

(***************************************************************************)
(* nilfs_atime_put_block (lines 208-212).                                  *)
(***************************************************************************)
AfterPutBlock(t) ==
    CASE op[t] = "fill" -> "fill_244"
      [] op[t] = "update" -> "upd_263"
      [] op[t] = "delete" -> "del_287"

\* line 210: kunmap(block_bh->b_page)
put_block_kunmap(t) ==
    /\ Goto(t, "pb_210", "pb_211")
    /\ kmapped' = [kmapped EXCEPT ![block_bh[t]] = @ - 1]
    /\ Log(t, "kunmap", block_bh[t], 0)
    /\ UNCHANGED <<op, atimefile, inode, ret, bh, err, block_bh, cnt,
                   needs_release, pend, retval>>
    /\ UNCHANGED <<mi_sem, exists, mem, b_count, bh_dirty, mdt_dirty>>
    /\ UNCHANGED <<book, addr>>

\* line 211: brelse(block_bh)
put_block_brelse(t) ==
    /\ Goto(t, "pb_211", AfterPutBlock(t))
    /\ b_count' = [b_count EXCEPT ![block_bh[t]] = @ - 1]
    /\ Log(t, "brelse", block_bh[t], 0)
    /\ UNCHANGED <<op, atimefile, inode, ret, bh, err, block_bh, cnt,
                   needs_release, pend, retval>>
    /\ UNCHANGED <<mi_sem, exists, mem, kmapped, bh_dirty, mdt_dirty>>
    /\ UNCHANGED <<book, addr>>

(***************************************************************************)
(* Access to the mapped block through atime_block / atime.                 *)
(***************************************************************************)
\* *atime, the entry nilfs_atime_get_entry_in_block(atime_block, i_ino)
\* points to, and atime_block->header.count
AtimeOf(t) == EntryAt(mem[block_bh[t]], EntryOf(t))
CountOf(t) == mem[block_bh[t]].header.count

\* atime->f = v
StoreAtime(t, f, v) ==
    mem' = [mem EXCEPT ![block_bh[t]] =
                WithEntry(@, EntryOf(t), [AtimeOf(t) EXCEPT ![f] = v])]

\* atime_block->header.count = c
StoreCount(t, c) ==
    mem' = [mem EXCEPT ![block_bh[t]].header.count = c]

\* a step that changes nothing but pc (and what the caller names)
regs == <<op, atimefile, inode, ret, bh, err, block_bh, cnt,
          needs_release, pend, retval>>
nomem == <<mi_sem, exists, b_count, kmapped, bh_dirty, mdt_dirty>>

(***************************************************************************)
(* nilfs_atime_fill_inode (lines 218-245).                                 *)
(***************************************************************************)
\* a variant of the test of line 225 that misses the NULL atime file
fill_is_atimefile_only(t) == atimefile[t] = "inode"

\* line 225: (NULL == atimefile) || (atimefile == inode)
fill_no_atimefile(t) == (NULL = atimefile[t]) \/ (atimefile[t] = "inode")

\* lines 225-228: no atime file, or the inode is the atime file itself
fill_bypass(t) ==
    /\ Goto(t, "fill_225", "ret")
    /\ fill_no_atimefile(t)
    /\ inode' = [inode EXCEPT ![t].i_atime = inode[t].i_mtime]
    /\ retval' = [retval EXCEPT ![t] = 0]
    /\ UNCHANGED <<op, atimefile, ret, bh, err, block_bh, cnt,
                   needs_release, pend, calls>>
    /\ UNCHANGED <<store, book, addr>>

\* line 230: call nilfs_atime_get_block
fill_get_block(t) ==
    /\ Goto(t, "fill_225", "gb_175")
    /\ ~fill_no_atimefile(t)
    /\ UNCHANGED <<regs, calls, store, book, addr>>

\* a variant of lines 231-233 that returns 0 when the block was not got
fill_get_block_failed_ignored(t) ==
    /\ Goto(t, "fill_231", "ret")
    /\ err[t] < 0
    /\ retval' = [retval EXCEPT ![t] = 0]
    /\ UNCHANGED <<op, atimefile, inode, ret, bh, err, block_bh, cnt,
                   needs_release, pend, calls>>
    /\ UNCHANGED <<store, book, addr>>

\* lines 231-233: if (err < 0) return err
fill_get_block_failed(t) ==
    /\ Goto(t, "fill_231", "ret")
    /\ err[t] < 0
    /\ retval' = [retval EXCEPT ![t] = err[t]]
    /\ UNCHANGED <<op, atimefile, inode, ret, bh, err, block_bh, cnt,
                   needs_release, pend, calls>>
    /\ UNCHANGED <<store, book, addr>>

\* lines 235-236: 0 == atime->tv_sec, the left operand of &&
fill_test_tv_sec(t) ==
    /\ pc[t] = "fill_231"
    /\ ~(err[t] < 0)
    /\ pc' = [pc EXCEPT ![t] = IF 0 = AtimeOf(t).tv_sec
                                 THEN "fill_236" ELSE "fill_242"]
    /\ UNCHANGED <<regs, calls, store, book, addr>>

\* a variant of line 236 that tests tv_sec only
fill_test_tv_nsec_dropped(t) ==
    /\ pc[t] = "fill_236"
    /\ pc' = [pc EXCEPT ![t] = "fill_238"]
    /\ UNCHANGED <<regs, calls, store, book, addr>>

\* line 236: 0 == atime->tv_nsec, the right operand of &&
fill_test_tv_nsec(t) ==
    /\ pc[t] = "fill_236"
    /\ pc' = [pc EXCEPT ![t] = IF 0 = AtimeOf(t).tv_nsec
                                 THEN "fill_238" ELSE "fill_242"]
    /\ UNCHANGED <<regs, calls, store, book, addr>>

\* line 238: *atime = inode->i_mtime, the first field copied
fill_set_atime_first(t, f) ==
    /\ Goto(t, "fill_238", "fill_238b")
    /\ StoreAtime(t, f, inode[t].i_mtime[f])
    /\ pend' = [pend EXCEPT ![t] = OtherField(f)]
    /\ UNCHANGED <<op, atimefile, inode, ret, bh, err, block_bh, cnt,
                   needs_release, retval, calls>>
    /\ UNCHANGED <<nomem, book, addr>>

\* line 238: *atime = inode->i_mtime, the other field
fill_set_atime_second(t) ==
    /\ Goto(t, "fill_238b", "fill_239")
    /\ StoreAtime(t, pend[t], inode[t].i_mtime[pend[t]])
    /\ pend' = [pend EXCEPT ![t] = "none"]
    /\ UNCHANGED <<op, atimefile, inode, ret, bh, err, block_bh, cnt,
                   needs_release, retval, calls>>
    /\ UNCHANGED <<nomem, book, addr>>

\* line 239: ++atime_block->header.count, the load
fill_count_load(t) ==
    /\ Goto(t, "fill_239", "fill_239w")
    /\ cnt' = [cnt EXCEPT ![t] = CountOf(t)]
    /\ UNCHANGED <<op, atimefile, inode, ret, bh, err, block_bh,
                   needs_release, pend, retval, calls>>
    /\ UNCHANGED <<store, book, addr>>

\* line 239: ++atime_block->header.count, the store
fill_count_store(t) ==
    /\ Goto(t, "fill_239w", "fill_242")
    /\ StoreCount(t, U64Inc(cnt[t]))
    /\ UNCHANGED <<regs, calls, nomem, book, addr>>

\* line 242: inode->i_atime = *atime, the first field copied
fill_get_atime_first(t, f) ==
    /\ Goto(t, "fill_242", "fill_242b")
    /\ inode' = [inode EXCEPT ![t].i_atime[f] = AtimeOf(t)[f]]
    /\ pend' = [pend EXCEPT ![t] = OtherField(f)]
    /\ UNCHANGED <<op, atimefile, ret, bh, err, block_bh, cnt,
                   needs_release, retval, calls>>
    /\ UNCHANGED <<store, book, addr>>

\* a variant of lines 242-244 that returns without nilfs_atime_put_block
fill_get_atime_second_no_put(t) ==
    /\ Goto(t, "fill_242b", "fill_244")
    /\ inode' = [inode EXCEPT ![t].i_atime[pend[t]] = AtimeOf(t)[pend[t]]]
    /\ pend' = [pend EXCEPT ![t] = "none"]
    /\ UNCHANGED <<op, atimefile, ret, bh, err, block_bh, cnt,
                   needs_release, retval, calls>>
    /\ UNCHANGED <<store, book, addr>>

\* line 242: inode->i_atime = *atime, the other field;
\* line 243: call nilfs_atime_put_block
fill_get_atime_second(t) ==
    /\ Goto(t, "fill_242b", "pb_210")
    /\ inode' = [inode EXCEPT ![t].i_atime[pend[t]] = AtimeOf(t)[pend[t]]]
    /\ pend' = [pend EXCEPT ![t] = "none"]
    /\ UNCHANGED <<op, atimefile, ret, bh, err, block_bh, cnt,
                   needs_release, retval, calls>>
    /\ UNCHANGED <<store, book, addr>>

\* line 244: return 0
fill_return(t) ==
    /\ Goto(t, "fill_244", "ret")
    /\ retval' = [retval EXCEPT ![t] = 0]
    /\ UNCHANGED <<op, atimefile, inode, ret, bh, err, block_bh, cnt,
                   needs_release, pend, calls>>
    /\ UNCHANGED <<store, book, addr>>

(***************************************************************************)
(* nilfs_atime_update_from_inode (lines 247-264).                          *)
(***************************************************************************)
\* lines 255-257: if (err < 0) return err
update_get_block_failed(t) ==
    /\ Goto(t, "upd_255", "ret")
    /\ err[t] < 0
    /\ retval' = [retval EXCEPT ![t] = err[t]]
    /\ UNCHANGED <<op, atimefile, inode, ret, bh, err, block_bh, cnt,
                   needs_release, pend, calls>>
    /\ UNCHANGED <<store, book, addr>>

\* lines 259-260: *atime = inode->i_atime, the first field copied
update_set_atime_first(t, f) ==
    /\ Goto(t, "upd_255", "upd_260b")
    /\ ~(err[t] < 0)
    /\ StoreAtime(t, f, inode[t].i_atime[f])
    /\ pend' = [pend EXCEPT ![t] = OtherField(f)]
    /\ UNCHANGED <<op, atimefile, inode, ret, bh, err, block_bh, cnt,
                   needs_release, retval, calls>>
    /\ UNCHANGED <<nomem, book, addr>>

\* a variant of line 260 that counts the entry it writes
update_set_atime_second_counted(t) ==
    /\ Goto(t, "upd_260b", "pb_210")
    /\ mem' = [mem EXCEPT ![block_bh[t]] =
                 [WithEntry(@, EntryOf(t),
                            [AtimeOf(t) EXCEPT
                                ![pend[t]] = inode[t].i_atime[pend[t]]])
                    EXCEPT !.header.count = U64Inc(@)]]
    /\ pend' = [pend EXCEPT ![t] = "none"]
    /\ UNCHANGED <<op, atimefile, inode, ret, bh, err, block_bh, cnt,
                   needs_release, retval, calls>>
    /\ UNCHANGED <<nomem, book, addr>>

\* line 260: *atime = inode->i_atime, the other field;
\* line 262: call nilfs_atime_put_block
update_set_atime_second(t) ==
    /\ Goto(t, "upd_260b", "pb_210")
    /\ StoreAtime(t, pend[t], inode[t].i_atime[pend[t]])
    /\ pend' = [pend EXCEPT ![t] = "none"]
    /\ UNCHANGED <<op, atimefile, inode, ret, bh, err, block_bh, cnt,
                   needs_release, retval, calls>>
    /\ UNCHANGED <<nomem, book, addr>>

\* line 263: return 0
update_return(t) ==
    /\ Goto(t, "upd_263", "ret")
    /\ retval' = [retval EXCEPT ![t] = 0]
    /\ UNCHANGED <<op, atimefile, inode, ret, bh, err, block_bh, cnt,
                   needs_release, pend, calls>>
    /\ UNCHANGED <<store, book, addr>>

(***************************************************************************)
(* nilfs_atime_delete_inode_entry (lines 266-292).                         *)
(***************************************************************************)
\* lines 275-277: if (err < 0) return err
delete_get_block_failed(t) ==
    /\ Goto(t, "del_275", "ret")
    /\ err[t] < 0
    /\ retval' = [retval EXCEPT ![t] = err[t]]
    /\ UNCHANGED <<op, atimefile, inode, ret, bh, err, block_bh, cnt,
                   needs_release, pend, calls>>
    /\ UNCHANGED <<store, book, addr>>

\* lines 279-280: atime->tv_sec = 0
delete_clear_tv_sec(t) ==
    /\ Goto(t, "del_275", "del_281")
    /\ ~(err[t] < 0)
    /\ StoreAtime(t, "tv_sec", 0)
    /\ UNCHANGED <<regs, calls, nomem, book, addr>>

\* line 281: atime->tv_nsec = 0
delete_clear_tv_nsec(t) ==
    /\ Goto(t, "del_281", "del_282")
    /\ StoreAtime(t, "tv_nsec", 0)
    /\ UNCHANGED <<regs, calls, nomem, book, addr>>

\* line 282: --atime_block->header.count, the load
delete_count_load(t) ==
    /\ Goto(t, "del_282", "del_282w")
    /\ cnt' = [cnt EXCEPT ![t] = CountOf(t)]
    /\ UNCHANGED <<op, atimefile, inode, ret, bh, err, block_bh,
                   needs_release, pend, retval, calls>>
    /\ UNCHANGED <<store, book, addr>>

\* line 282: --atime_block->header.count, the store
delete_count_store(t) ==
    /\ Goto(t, "del_282w", "del_283")
    /\ StoreCount(t, U64Dec(cnt[t]))
    /\ UNCHANGED <<regs, calls, nomem, book, addr>>

\* a variant of line 283 that always asks for the block to be deleted
delete_needs_release_always(t) ==
    /\ Goto(t, "del_283", "pb_210")
    /\ needs_release' = [needs_release EXCEPT ![t] = TRUE]
    /\ UNCHANGED <<op, atimefile, inode, ret, bh, err, block_bh, cnt,
                   pend, retval, calls>>
    /\ UNCHANGED <<store, book, addr>>

\* a variant of lines 283-289 that deletes the block before putting it
delete_release_before_put(t) ==
    /\ Goto(t, "del_283", "pb_210")
    /\ needs_release' = [needs_release EXCEPT ![t] = FALSE]
    /\ IF U64Zero = CountOf(t)
       THEN /\ nilfs_mdt_delete_block(BlockOf(t))
            /\ Log(t, "nilfs_mdt_delete_block", BlockOf(t), 0)
       ELSE UNCHANGED <<exists, bh_dirty, calls>>
    /\ UNCHANGED <<op, atimefile, inode, ret, bh, err, block_bh, cnt,
                   pend, retval>>
    /\ UNCHANGED <<mi_sem, mem, b_count, kmapped, mdt_dirty>>
    /\ UNCHANGED <<book, addr>>

\* line 283: needs_release = (0 == atime_block->header.count);
\* line 285: call nilfs_atime_put_block
delete_needs_release(t) ==
    /\ Goto(t, "del_283", "pb_210")
    /\ needs_release' = [needs_release EXCEPT ![t] = (U64Zero = CountOf(t))]
    /\ UNCHANGED <<op, atimefile, inode, ret, bh, err, block_bh, cnt,
                   pend, retval, calls>>
    /\ UNCHANGED <<store, book, addr>>

\* lines 287-288: if (needs_release) nilfs_mdt_delete_block(...); return 0
delete_release_block(t) ==
    /\ Goto(t, "del_287", "ret")
    /\ needs_release[t]
    /\ nilfs_mdt_delete_block(BlockOf(t))
    /\ Log(t, "nilfs_mdt_delete_block", BlockOf(t), 0)
    /\ retval' = [retval EXCEPT ![t] = 0]
    /\ UNCHANGED <<op, atimefile, inode, ret, bh, err, block_bh, cnt,
                   needs_release, pend>>
    /\ UNCHANGED <<mi_sem, mem, b_count, kmapped, mdt_dirty>>
    /\ UNCHANGED <<book, addr>>

\* lines 287, 291: needs_release is 0; return 0
delete_return(t) ==
    /\ Goto(t, "del_287", "ret")
    /\ ~needs_release[t]
    /\ retval' = [retval EXCEPT ![t] = 0]
    /\ UNCHANGED <<op, atimefile, inode, ret, bh, err, block_bh, cnt,
                   needs_release, pend, calls>>
    /\ UNCHANGED <<store, book, addr>>

(***************************************************************************)
(* The next-state relations.                                               *)
(***************************************************************************)
\* the steps of nilfs_atime_get_block and nilfs_atime_put_block
StepBlock(t) ==
    \/ get_block_down_write(t)
    \/ get_block_mdt_ok(t)
    \/ \E e \in MdtErrors : get_block_mdt_fail(t, e)
    \/ get_block_kmap(t)
    \/ get_block_mark_buffer_dirty(t)
    \/ get_block_mdt_mark_dirty(t)
    \/ get_block_store_out(t)
    \/ get_block_up_write(t)
    \/ put_block_kunmap(t)
    \/ put_block_brelse(t)
    \/ Return(t)

\* the steps of nilfs_atime_fill_inode
StepFill(t) ==
    \/ fill_bypass(t)
    \/ fill_get_block(t)
    \/ fill_get_block_failed(t)
    \/ fill_test_tv_sec(t)
    \/ fill_test_tv_nsec(t)
    \/ \E f \in Fields : fill_set_atime_first(t, f)
    \/ fill_set_atime_second(t)
    \/ fill_count_load(t)
    \/ fill_count_store(t)
    \/ \E f \in Fields : fill_get_atime_first(t, f)
    \/ fill_get_atime_second(t)
    \/ fill_return(t)

\* the steps of nilfs_atime_update_from_inode
StepUpdate(t) ==
    \/ update_get_block_failed(t)
    \/ \E f \in Fields : update_set_atime_first(t, f)
    \/ update_set_atime_second(t)
    \/ update_return(t)

\* the steps of nilfs_atime_delete_inode_entry
StepDelete(t) ==
    \/ delete_get_block_failed(t)
    \/ delete_clear_tv_sec(t)
    \/ delete_clear_tv_nsec(t)
    \/ delete_count_load(t)
    \/ delete_count_store(t)
    \/ delete_needs_release(t)
    \/ delete_release_block(t)
    \/ delete_return(t)

\* a caller invokes an interface function
InvokeFill(t) ==
    \E af \in {NULL, "inode", "atime"}, i \in Inos, m \in Times :
        CallFill(t, af, i, m)
InvokeUpdate(t) ==
    \E i \in Inos, a \in Times : CallUpdate(t, i, a)
InvokeDelete(t) ==
    \E i \in Inos : CallDelete(t, i)

\* no function is running
Quiescent == \A t \in Threads : pc[t] = "idle"

\* fill, update and delete run one at a time, all invoked by one caller
Next ==
    \/ \E t \in Serial : Quiescent /\ InvokeFill(t)
    \/ \E t \in Serial : Quiescent /\ InvokeUpdate(t)
    \/ \E t \in Serial : Quiescent /\ InvokeDelete(t)
    \/ \E t \in Serial : StepBlock(t)
    \/ \E t \in Serial : StepFill(t)
    \/ \E t \in Serial : StepUpdate(t)
    \/ \E t \in Serial : StepDelete(t)

Spec == Init /\ [][Next]_vars

\* fill and delete alone run one at a time on the initially empty file
NextFillDelete ==
    \/ \E t \in Serial : Quiescent /\ InvokeFill(t)
    \/ \E t \in Serial : Quiescent /\ InvokeDelete(t)
    \/ \E t \in Serial : StepBlock(t)
    \/ \E t \in Serial : StepFill(t)
    \/ \E t \in Serial : StepDelete(t)

SpecFillDelete == Init /\ [][NextFillDelete]_vars

\* the atime file as nilfs_atime_fill_inode leaves the empty file when
\* called for inode 0 with i_mtime (0,7): block 0 holds the one entry
FileAfterFill ==
    /\ mi_sem = NoWriter
    /\ exists = [b \in Blocks |-> b = 0]
    /\ mem = [b \in Blocks |->
                IF b = 0
                THEN [WithEntry(nilfs_atime_block_init, 0, timespec(0, 7))
                         EXCEPT !.header.count = U64OfNat(1)]
                ELSE nilfs_atime_block_init]
    /\ b_count = [b \in Blocks |-> 0]
    /\ kmapped = [b \in Blocks |-> 0]
    /\ bh_dirty = [b \in Blocks |-> b = 0]
    /\ mdt_dirty = TRUE

\* the same, on a file that already holds the entry of inode 0
InitAfterFill ==
    /\ InitLocals
    /\ FileAfterFill
    /\ a_ids = <<0, 0>>
    /\ a_res = <<>>

SpecAfterFill == InitAfterFill /\ [][Next]_vars

(***************************************************************************)
(* Concurrent callers: every thread may call and step at any time; only    *)
(* mi_sem orders them.                                                     *)
(***************************************************************************)
InitConc ==
    /\ InitLocals
    /\ EmptyFile \/ FileAfterFill
    /\ a_ids = <<0, 0>>
    /\ a_res = <<>>

\* the times concurrent callers pass: mixing the fields of the two gives
\* (1000,7) or (0,0), which no caller passes
ConcTimes == {timespec(0, 7), timespec(1000, 0)}

\* each thread makes one call; the threads are numbered in the order of
\* their calls
CallsNext(t) == nops = t - 1

InvokeFillConc(t) ==
    \E af \in {NULL, "atime"}, i \in Inos, m \in ConcTimes :
        CallFill(t, af, i, m)
InvokeUpdateConc(t) ==
    \E i \in Inos, a \in ConcTimes : CallUpdate(t, i, a)

NextConc ==
    \/ \E t \in Threads : CallsNext(t) /\ InvokeFillConc(t)
    \/ \E t \in Threads : CallsNext(t) /\ InvokeUpdateConc(t)
    \/ \E t \in Threads : CallsNext(t) /\ InvokeDelete(t)
    \/ \E t \in Threads : StepBlock(t)
    \/ \E t \in Threads : StepFill(t)
    \/ \E t \in Threads : StepUpdate(t)
    \/ \E t \in Threads : StepDelete(t)

SpecConc == InitConc /\ [][NextConc]_vars

\* a thread inside an interface function is scheduled again: a step of its
\* function that can be taken is not put off for ever; every step moves the
\* thread to another line
ThreadStep(t) == StepBlock(t) \/ StepFill(t) \/ StepUpdate(t) \/ StepDelete(t)

\* the calls of the two threads when only their scheduling is of interest:
\* inodes of one block and one time, on the initially empty file
FairInos == {0, 30}
FairTime == timespec(0, 7)

NextConcFair ==
    \/ \E t \in Threads : CallsNext(t) /\
           \E af \in {NULL, "atime"}, i \in FairInos :
               CallFill(t, af, i, FairTime)
    \/ \E t \in Threads : CallsNext(t) /\
           \E i \in FairInos : CallUpdate(t, i, FairTime)
    \/ \E t \in Threads : CallsNext(t) /\
           \E i \in FairInos : CallDelete(t, i)
    \/ \E t \in Threads : StepBlock(t)
    \/ \E t \in Threads : StepFill(t)
    \/ \E t \in Threads : StepUpdate(t)
    \/ \E t \in Threads : StepDelete(t)

SpecConcFair ==
    /\ Init
    /\ [][NextConcFair]_vars
    /\ \A t \in Threads : WF_pc(ThreadStep(t))

(***************************************************************************)
(* The addressing functions applied to pairs of inode numbers.             *)
(***************************************************************************)
InitAddr ==
    /\ InitStore
    /\ a_ids \in (0 .. MaxId) \X (0 .. MaxId)
    /\ a_res = <<>>

Locate(inode_num) ==
    [block  |-> nilfs_atime_get_block_number(inode_num),
     offset |-> nilfs_atime_get_entry_in_block(inode_num)]

AddrApply ==
    /\ a_res = <<>>
    /\ a_res' = <<Locate(a_ids[1]), Locate(a_ids[2])>>
    /\ UNCHANGED <<locals, store, book, a_ids>>

SpecAddr == InitAddr /\ [][AddrApply]_vars

(***************************************************************************)
(* Vocabulary of the properties.                                           *)
(***************************************************************************)
\* N of a 512-byte block
N512 == 31
Absent == timespec(0, 0)
Present(e) == e # Absent

\* the block and offset the specification assigns to an inode number
block_number(id) == id \div N512
offset(id) == id % N512

\* the number of entries of block b that are not (0,0)
LiveEntries(b) == Cardinality({i \in Offsets : Present(EntryAt(mem[b], i))})

\* thread t is inside an interface function / at its return
Running(t) == pc[t] # "idle"
Returned(t) == pc[t] = "ret"
Store(t) == atimefile[t] = "atime"

\* entry and counter of the inode of t's operation, at the call and now;
\* a block the file does not hold has no present entry and no live entry
PreEntry(t) ==
    LET b == block_number(inode[t].i_ino)
    IN  IF pre[t].exists[b] THEN EntryAt(pre[t].mem[b], offset(inode[t].i_ino))
        ELSE Absent
PreCount(t) ==
    LET b == block_number(inode[t].i_ino)
    IN  IF pre[t].exists[b] THEN pre[t].mem[b].header.count ELSE U64Zero
NowEntry(t) ==
    LET b == block_number(inode[t].i_ino)
    IN  IF exists[b] THEN EntryAt(mem[b], offset(inode[t].i_ino)) ELSE Absent
\* the counter as the operation left it in the block's buffer
BufCount(t) == mem[block_number(inode[t].i_ino)].header.count

\* the places of the calls to fn in the log of t
CallsTo(t, fn) == {k \in DOMAIN calls[t] : calls[t][k].fn = fn}
Acquired(t) == {k \in CallsTo(t, "nilfs_mdt_get_block") : calls[t][k].res = 0}
Failed(t) == {k \in CallsTo(t, "nilfs_mdt_get_block") : calls[t][k].res < 0}
Released(t) == CallsTo(t, "brelse")
Reclaims(t) == CallsTo(t, "nilfs_mdt_delete_block")

\* references on the buffer head of b that t has taken and not dropped
HeldBy(t, b) ==
    Cardinality({k \in Acquired(t) : calls[t][k].arg = b})
      - Cardinality({k \in Released(t) : calls[t][k].arg = b})
RECURSIVE SumHeld(_, _)
SumHeld(S, b) ==
    IF S = {} THEN 0
    ELSE LET t == CHOOSE x \in S : TRUE
         IN  HeldBy(t, b) + SumHeld(S \ {t}, b)

\* the atime file is as it was when t called
StoreAsAtCall(t) ==
    /\ exists = pre[t].exists
    /\ mem = pre[t].mem
    /\ bh_dirty = pre[t].bh_dirty
    /\ mdt_dirty = pre[t].mdt_dirty

(***************************************************************************)
(* C1. Whenever no operation is running, after any sequence of fill and    *)
(* delete operations on the initially empty file, the count of every       *)
(* block the file holds equals the number of its entries that are not      *)
(* (0,0).                                                                  *)
(***************************************************************************)
C1_CountEqualsLiveEntries ==
    Quiescent =>
        \A b \in Blocks :
            exists[b] => mem[b].header.count = U64OfNat(LiveEntries(b))

(***************************************************************************)
(* C2. A fill through the atime file of an inode whose entry is present    *)
(* leaves the entry and the count of its block as they were, whatever      *)
(* i_mtime it is given, and when it succeeds it reports that entry.        *)
(***************************************************************************)
C2_FillKeepsPresentEntry ==
    \A t \in Threads :
        (Running(t) /\ op[t] = "fill" /\ Store(t) /\ Present(PreEntry(t))) =>
            /\ NowEntry(t) = PreEntry(t)
            /\ exists[block_number(inode[t].i_ino)]
            /\ BufCount(t) = PreCount(t)
            /\ (Returned(t) /\ retval[t] = 0) => inode[t].i_atime = PreEntry(t)

\* a second fill with another fallback has returned the entry
C2_Witness ==
    \E t \in Threads :
        /\ Returned(t) /\ op[t] = "fill" /\ Store(t) /\ retval[t] = 0
        /\ Present(PreEntry(t))
        /\ inode[t].i_mtime # PreEntry(t)
        /\ inode[t].i_atime = PreEntry(t)

(***************************************************************************)
(* C3. A delete of an inode whose entry a fill has made present leaves     *)
(* the entry (0,0) and the count of the block exactly 1 lower than it was  *)
(* at the call.                                                            *)
(***************************************************************************)
C3_DeleteClearsAndDecrements ==
    \A t \in Threads :
        (Returned(t) /\ op[t] = "delete" /\ retval[t] = 0
           /\ Present(PreEntry(t))) =>
            /\ NowEntry(t) = Absent
            /\ PreCount(t) # U64Zero
            /\ BufCount(t) = U64Dec(PreCount(t))

(***************************************************************************)
(* C4. A delete that takes the count of its block from 1 to 0 calls        *)
(* nilfs_mdt_delete_block exactly once, for block i_ino / 31; a delete     *)
(* that leaves the count non-zero does not call it, and fill and update    *)
(* never call it.                                                          *)
(***************************************************************************)
C4_ReclaimExactlyOnLastEntry ==
    \A t \in Threads :
        /\ (Running(t) /\ op[t] \in {"fill", "update"}) => Reclaims(t) = {}
        /\ (Running(t) /\ op[t] = "delete") => Cardinality(Reclaims(t)) <= 1
        /\ (Returned(t) /\ op[t] = "delete" /\ retval[t] = 0
              /\ PreCount(t) = U64OfNat(1) /\ BufCount(t) = U64Zero) =>
               /\ Cardinality(Reclaims(t)) = 1
               /\ \A k \in Reclaims(t) :
                      calls[t][k].arg = block_number(inode[t].i_ino)
        /\ (Returned(t) /\ op[t] = "delete" /\ BufCount(t) # U64Zero) =>
               Reclaims(t) = {}

C4_Witness ==
    \E t \in Threads :
        /\ Returned(t) /\ op[t] = "delete" /\ retval[t] = 0
        /\ PreCount(t) = U64OfNat(1) /\ BufCount(t) = U64Zero
        /\ Present(PreEntry(t))
        /\ pre[t].exists[block_number(inode[t].i_ino)]
        /\ ~exists[block_number(inode[t].i_ino)]
        /\ Reclaims(t) # {}

(***************************************************************************)
(* C5. When a delete calls nilfs_mdt_delete_block for a block, it has      *)
(* already unmapped and released the buffer of that block it got: the      *)
(* call never comes while the delete holds the block.                      *)
(***************************************************************************)
C5_ReclaimAfterRelease ==
    \A t \in Threads : \A k \in Reclaims(t) :
        LET b == calls[t][k].arg
            Before(S) == {j \in S : j < k /\ calls[t][j].arg = b}
        IN  /\ op[t] = "delete"
            /\ Cardinality(Before(Acquired(t))) = 1
            /\ Cardinality(Before(CallsTo(t, "kunmap"))) = 1
            /\ Cardinality(Before(Released(t))) = 1
            /\ HeldBy(t, b) = 0

C5_Witness ==
    \E t \in Threads :
        /\ Returned(t) /\ op[t] = "delete"
        /\ Len(calls[t]) >= 2
        /\ calls[t][Len(calls[t])].fn = "nilfs_mdt_delete_block"
        /\ calls[t][Len(calls[t]) - 1].fn = "brelse"
        /\ calls[t][Len(calls[t]) - 1].arg = calls[t][Len(calls[t])].arg

(***************************************************************************)
(* C6. Every buffer nilfs_mdt_get_block handed to fill, update or delete   *)
(* is released by exactly one brelse before the function returns,          *)
(* whichever way it returns: nothing is held at the return and no buffer   *)
(* is released twice or without having been got.                           *)
(***************************************************************************)
C6_OneReleasePerAcquisition ==
    /\ \A t \in Threads :
        /\ \A b \in Blocks : HeldBy(t, b) \in {0, 1}
        /\ \A k \in Released(t) : \E j \in Acquired(t) :
               j < k /\ calls[t][j].arg = calls[t][k].arg
        /\ Cardinality(CallsTo(t, "kunmap")) = Cardinality(Released(t))
           \/ Cardinality(CallsTo(t, "kunmap")) = Cardinality(Released(t)) + 1
        /\ (Returned(t) \/ ~Running(t)) =>
               /\ \A b \in Blocks : HeldBy(t, b) = 0
               /\ Cardinality(Released(t)) = Cardinality(Acquired(t))
               /\ Cardinality(CallsTo(t, "kunmap"))
                      = Cardinality(CallsTo(t, "kmap"))
    /\ \A b \in Blocks : b_count[b] = SumHeld(Threads, b)

C6_Witness ==
    \E t \in Threads :
        /\ Returned(t) /\ op[t] = "update" /\ retval[t] = 0
        /\ Cardinality(Acquired(t)) = 1
        /\ Cardinality(Released(t)) = 1
        /\ \A b \in Blocks : b_count[b] = 0 /\ kmapped[b] = 0

(***************************************************************************)
(* C7. When nilfs_mdt_get_block fails with -EIO or -ENOMEM, fill, update   *)
(* and delete return that error; they map, dirty, release and delete       *)
(* nothing, hold no buffer, and leave the blocks of the atime file and     *)
(* the caller's i_atime as they were at the call.                          *)
(***************************************************************************)
C7_AcquisitionFailureIsClean ==
    \A t \in Threads : Failed(t) # {} =>
        /\ \A k \in DOMAIN calls[t] : calls[t][k].fn \in
               {"down_write", "nilfs_mdt_get_block", "up_write"}
        /\ Acquired(t) = {}
        /\ Cardinality(Failed(t)) = 1
        /\ block_bh[t] = NoBh
        /\ \A b \in Blocks : HeldBy(t, b) = 0
        /\ StoreAsAtCall(t)
        /\ inode[t].i_atime = pre[t].i_atime
        /\ Returned(t) =>
               /\ retval[t] \in MdtErrors
               /\ \A k \in Failed(t) : retval[t] = calls[t][k].res

C7_Witness ==
    \E t \in Threads :
        /\ Returned(t) /\ op[t] = "fill" /\ retval[t] = -ENOMEM
        /\ Failed(t) # {}
        /\ \E b \in Blocks : exists[b] /\ mem[b].header.count = U64OfNat(1)

(***************************************************************************)
(* C8. A fill called without an atime file (atimefile is NULL, or is the   *)
(* inode itself) returns 0 with i_atime set to i_mtime, for any inode      *)
(* number; it gets, creates, dirties and releases no block and leaves      *)
(* the atime file unchanged.                                               *)
(***************************************************************************)
C8_BypassFillTouchesNothing ==
    \A t \in Threads :
        (Running(t) /\ op[t] = "fill" /\ atimefile[t] \in {NULL, "inode"}) =>
            /\ calls[t] = <<>>
            /\ StoreAsAtCall(t)
            /\ block_bh[t] = NoBh
            /\ Returned(t) =>
                   /\ retval[t] = 0
                   /\ inode[t].i_atime = inode[t].i_mtime

C8_Witness ==
    \E t \in Threads :
        /\ Returned(t) /\ op[t] = "fill" /\ atimefile[t] = NULL
        /\ inode[t].i_ino = 31
        /\ inode[t].i_mtime = timespec(1000, 0)
        /\ inode[t].i_atime = inode[t].i_mtime
        /\ exists[0] /\ ~exists[1]

(***************************************************************************)
(* C9. For every inode number id, block_number(id) * N + offset(id) = id   *)
(* with 0 <= offset(id) < N, where N = (512 - 8) / 16 = 31; two distinct   *)
(* inode numbers never get the same (block, offset) pair.                  *)
(***************************************************************************)
C9_AddressingRoundTrip ==
    /\ NILFS_ENTRIES_IN_ATIME_BLOCK = N512
    /\ a_res # <<>> =>
        /\ \A k \in {1, 2} :
            /\ a_res[k].block * N512 + a_res[k].offset = a_ids[k]
            /\ 0 <= a_res[k].offset
            /\ a_res[k].offset < N512
            /\ a_res[k].block = block_number(a_ids[k])
        /\ a_ids[1] # a_ids[2] => a_res[1] # a_res[2]

C9_Witness ==
    /\ a_ids = <<30, 31>>
    /\ a_res = <<[block |-> 0, offset |-> 30], [block |-> 1, offset |-> 0]>>

(***************************************************************************)
(* C10. A fill, update or delete of inode number id changes neither the    *)
(* count nor any entry of a block other than block id / N; inode numbers   *)
(* 30 and 31 are in blocks 0 and 1, so an operation on one leaves the      *)
(* count of the other's block alone.                                       *)
(***************************************************************************)
C10_OtherBlocksUntouched ==
    /\ nilfs_atime_get_block_number(30) = 0
    /\ nilfs_atime_get_block_number(31) = 1
    /\ \A t \in Threads : Running(t) =>
           \A b \in Blocks \ {block_number(inode[t].i_ino)} :
               /\ exists[b] = pre[t].exists[b]
               /\ mem[b] = pre[t].mem[b]

C10_Witness ==
    \E t \in Threads :
        /\ Returned(t) /\ op[t] = "delete" /\ retval[t] = 0
        /\ inode[t].i_ino = 30
        /\ Present(PreEntry(t))
        /\ mem[0] # pre[t].mem[0]
        /\ pre[t].exists[1] /\ exists[1]
        /\ mem[1].header.count = U64OfNat(1)
        /\ Present(EntryAt(mem[1], 0))

(***************************************************************************)
(* C11. The count of every block the file holds stays within 0..N in       *)
(* every reachable state: a delete of an inode whose entry is already      *)
(* (0,0), such as the second of two deletes in a row, is rejected and      *)
(* does not decrement a count of zero.                                     *)
(***************************************************************************)
CountInRange(c) == \E n \in 0 .. N512 : c = U64OfNat(n)

C11_CountNeverWraps ==
    /\ \A b \in Blocks : exists[b] => CountInRange(mem[b].header.count)
    /\ \A t \in Threads :
           (Returned(t) /\ op[t] = "delete" /\ Failed(t) = {}
              /\ PreCount(t) = U64Zero) => retval[t] # 0

(***************************************************************************)
(* C12. With threads running fill, update and delete concurrently, no      *)
(* fill reports a time made of one field of one write and one field of     *)
(* another: the i_atime a fill returns with is a time some caller passed   *)
(* whole, or (0,0).                                                        *)
(***************************************************************************)
C12_NoTornEntry ==
    \A t \in Threads :
        (Returned(t) /\ op[t] = "fill" /\ retval[t] = 0) =>
            inode[t].i_atime \in Times

(***************************************************************************)
(* C13. At most one thread at a time is between down_write and up_write    *)
(* of nilfs_atime_get_block, and it is the holder of mi_sem; two           *)
(* concurrent operations on inodes of the same missing block have the      *)
(* block created and initialised once, and both get that one block.        *)
(***************************************************************************)
InGetBlock(t) ==
    pc[t] \in {"gb_178", "gb_186", "gb_190", "gb_191", "gb_194", "gb_200"}

\* the calls of t that had block b created and initialised
Creations(t, b) ==
    {k \in CallsTo(t, "nilfs_atime_block_init") : calls[t][k].arg = b}

\* both threads run an operation that got block b, missing when the first
\* was called, and neither has deleted it
BothGot(b) ==
    /\ \A t \in Threads :
        /\ Running(t)
        /\ \E k \in Acquired(t) : calls[t][k].arg = b
        /\ Reclaims(t) = {}
        /\ block_number(inode[t].i_ino) = b
    /\ ~pre[1].exists[b]
    /\ ~pre[2].exists[b]

C13_GetBlockIsExclusive ==
    /\ \A t, u \in Threads : (InGetBlock(t) /\ InGetBlock(u)) => t = u
    /\ \A t \in Threads : InGetBlock(t) <=> mi_sem = t
    /\ \A b \in Blocks : BothGot(b) =>
        /\ Cardinality(Creations(1, b)) + Cardinality(Creations(2, b)) = 1
        /\ exists[b]
        /\ \A t \in Threads :
               IF pc[t] \in {"gb_186", "gb_190", "gb_191", "gb_194"}
               THEN bh[t] = b
               ELSE block_bh[t] = b

C13_Witness ==
    /\ BothGot(0)
    /\ inode[1].i_ino # inode[2].i_ino
    /\ HeldBy(1, 0) = 1 /\ HeldBy(2, 0) = 1
    /\ b_count[0] = 2
    /\ \A t \in Threads : pc[t] = AfterGetBlock(t)
    /\ block_bh[1] = 0 /\ block_bh[2] = 0
    /\ Creations(1, 0) = {} /\ Creations(2, 0) # {}

(***************************************************************************)
(* C14. mi_sem covers nilfs_atime_get_block only: a thread reads and       *)
(* writes entries and the count, and releases the block, without it.  Two  *)
(* concurrent operations on different inodes of one block that was in the  *)
(* file at both calls therefore race on the count, each updating it as a   *)
(* load and a store: the count they leave is the one of either serial      *)
(* order or one that lost the update of one of the two, and an             *)
(* interleaving leaves a count that differs from the number of entries     *)
(* that are not (0,0).                                                     *)
(***************************************************************************)
\* the count c as the operation of t alone would leave it
CountAfter(t, c) ==
    CASE op[t] = "fill" /\ ~Present(PreEntry(t)) -> U64Inc(c)
      [] op[t] = "delete" -> U64Dec(c)
      [] OTHER -> c

\* both threads have returned 0 from operations on different inodes of
\* block b, which was in the file at both calls and still is
TwoOnBlock(b) ==
    /\ \A t \in Threads :
        /\ Returned(t) /\ retval[t] = 0 /\ Store(t)
        /\ block_number(inode[t].i_ino) = b
        /\ pre[t].exists[b]
        /\ Reclaims(t) = {}
    /\ inode[1].i_ino # inode[2].i_ino
    /\ exists[b]

C14_CountRace ==
    /\ \A t \in Threads : (Running(t) /\ ~InGetBlock(t)) => mi_sem # t
    /\ \A b \in Blocks : TwoOnBlock(b) =>
        LET c0 == pre[1].mem[b].header.count
        IN  mem[b].header.count \in
                {CountAfter(2, CountAfter(1, c0)),
                 CountAfter(1, c0), CountAfter(2, c0)}

C14_Witness ==
    /\ TwoOnBlock(0)
    /\ {op[1], op[2]} = {"fill", "delete"}
    /\ pre[1].mem[0].header.count = U64OfNat(1)
    /\ mem[0].header.count = U64OfNat(2)
    /\ LiveEntries(0) = 1
    /\ mem[0].header.count # CountAfter(2, CountAfter(1, U64OfNat(1)))

(***************************************************************************)
(* C15. An update that returns 0 leaves the entry of its inode equal to    *)
(* the i_atime it was passed, whether or not the entry was (0,0) before    *)
(* and whatever the time; the count of the block and every other entry of  *)
(* the block are as at the call, and an update never calls                 *)
(* nilfs_mdt_delete_block.                                                 *)
(***************************************************************************)
\* entry i of block b at the call of t; a block not in the file is all zero
PreEntryAt(t, b, i) ==
    IF pre[t].exists[b] THEN EntryAt(pre[t].mem[b], i) ELSE Absent

C15_UpdateOverwritesOnly ==
    \A t \in Threads : (Running(t) /\ op[t] = "update") =>
        LET b == block_number(inode[t].i_ino)
        IN  /\ Reclaims(t) = {}
            /\ \A k \in Acquired(t) :
                   /\ exists[b]
                   /\ mem[b].header.count = PreCount(t)
                   /\ \A i \in Offsets \ {offset(inode[t].i_ino)} :
                          EntryAt(mem[b], i) = PreEntryAt(t, b, i)
            /\ (Returned(t) /\ retval[t] = 0) =>
                   /\ Acquired(t) # {}
                   /\ NowEntry(t) = inode[t].i_atime

C15_Witness ==
    \E t \in Threads :
        /\ Returned(t) /\ op[t] = "update" /\ retval[t] = 0
        /\ Present(PreEntry(t))
        /\ NowEntry(t) = Absent
        /\ inode[t].i_atime = Absent
        /\ PreCount(t) = U64OfNat(1)
        /\ BufCount(t) = U64OfNat(1)

(***************************************************************************)
(* C16. Every fill, update or delete that has got its block has called     *)
(* mark_buffer_dirty on its buffer and nilfs_mdt_mark_dirty on the atime   *)
(* file before it reads or writes an entry or the count: until both calls  *)
(* are made the block and i_atime are untouched, and afterwards both       *)
(* marks are set, also for a fill that finds its entry present.            *)
(***************************************************************************)
\* the calls of t to fn with argument a after its call number k
LaterCalls(t, k, fn, a) ==
    {j \in CallsTo(t, fn) : j > k /\ calls[t][j].arg = a}

C16_DirtyBeforeAccess ==
    \A t \in Threads : \A k \in Acquired(t) :
        LET b == calls[t][k].arg
        IN  IF InGetBlock(t)
            THEN /\ mem[b] = (IF pre[t].exists[b] THEN pre[t].mem[b]
                                                  ELSE nilfs_atime_block_init)
                 /\ inode[t].i_atime = pre[t].i_atime
            ELSE /\ LaterCalls(t, k, "mark_buffer_dirty", b) # {}
                 /\ LaterCalls(t, k, "nilfs_mdt_mark_dirty", "atimefile") # {}
                 /\ mdt_dirty
                 /\ Reclaims(t) = {} => bh_dirty[b]

C16_Witness ==
    \E t \in Threads :
        /\ Returned(t) /\ op[t] = "fill" /\ retval[t] = 0
        /\ Present(PreEntry(t))
        /\ mem = pre[t].mem
        /\ CallsTo(t, "mark_buffer_dirty") # {}
        /\ CallsTo(t, "nilfs_mdt_mark_dirty") # {}
        /\ bh_dirty[block_number(inode[t].i_ino)]

(***************************************************************************)
(* C17. A fill, update or delete has a block created exactly when it gets  *)
(* the block of its inode and the file did not hold that block at the      *)
(* call, whether the file never held it or a delete had it deleted; no     *)
(* other block comes into the file.  When nilfs_atime_get_block hands the  *)
(* created block over its count is 0 and all its entries are (0,0); a      *)
(* block the file held at the call is handed over with the count and the   *)
(* entries it had.                                                         *)
(***************************************************************************)
\* count 0 and every entry (0,0)
ZeroFilled(blk) ==
    /\ blk.header.count = U64Zero
    /\ \A i \in Offsets : EntryAt(blk, i) = Absent

\* t has got its block and has not touched it yet
JustGot(t) ==
    /\ Acquired(t) # {}
    /\ pc[t] \in {"gb_186", "gb_190", "gb_191", "gb_194", "gb_200",
                  AfterGetBlock(t)}

C17_CreatedOnMissOnly ==
    \A t \in Threads : Running(t) =>
        LET b == block_number(inode[t].i_ino)
        IN  /\ CallsTo(t, "nilfs_atime_block_init") = Creations(t, b)
            /\ Cardinality(Creations(t, b)) <= 1
            /\ Creations(t, b) # {} <=> (Acquired(t) # {} /\ ~pre[t].exists[b])
            /\ \A c \in Blocks :
                   (exists[c] /\ ~pre[t].exists[c]) =>
                       (c = b /\ Creations(t, b) # {})
            /\ JustGot(t) =>
                   /\ exists[b]
                   /\ IF pre[t].exists[b]
                      THEN mem[b] = pre[t].mem[b]
                      ELSE ZeroFilled(mem[b])

\* an operation has got a block that a delete had deleted with an entry
\* still in its buffer
C17_Witness ==
    \E t \in Threads :
        /\ Running(t) /\ JustGot(t)
        /\ ~pre[t].exists[0]
        /\ pre[t].mdt_dirty
        /\ ~ZeroFilled(pre[t].mem[0])
        /\ Creations(t, 0) # {}
        /\ ZeroFilled(mem[0])

(***************************************************************************)
(* C18. With a delete and a fill of different inodes running              *)
(* concurrently: when the delete, called for an inode whose entry was not  *)
(* (0,0), is about to call nilfs_mdt_delete_block, the block has count 0   *)
(* and no entry other than (0,0); and when both have returned, the fill    *)
(* having stored the entry of an inode of the same block, the block is     *)
(* still in the file.                                                      *)
(***************************************************************************)
\* t is at line 287 with needs_release set: its next step is the call of
\* nilfs_mdt_delete_block
AboutToReclaim(t) ==
    /\ pc[t] = "del_287"
    /\ needs_release[t]

\* the fill of u has returned 0 after storing i_mtime in an entry that was
\* (0,0)
FillStored(u) ==
    /\ Returned(u) /\ op[u] = "fill" /\ retval[u] = 0 /\ Store(u)
    /\ Acquired(u) # {}
    /\ Present(inode[u].i_mtime)
    /\ inode[u].i_atime = inode[u].i_mtime

C18_ReclaimsOnlyEmptyBlock ==
    \A t, u \in Threads :
        (t # u /\ op[t] = "delete" /\ op[u] = "fill"
              /\ Present(PreEntry(t))
              /\ inode[u].i_ino # inode[t].i_ino) =>
            LET b == block_number(inode[t].i_ino)
            IN  /\ AboutToReclaim(t) =>
                       /\ LiveEntries(b) = 0
                       /\ mem[b].header.count = U64Zero
                /\ (Returned(t) /\ Reclaims(t) # {} /\ FillStored(u)
                        /\ block_number(inode[u].i_ino) = b) =>
                       exists[b]

(***************************************************************************)
(* C19. A fill that returns 0 for an inode reports the i_atime of the      *)
(* last update of that inode, when that update returned 0, was passed a    *)
(* time other than (0,0), found the entry of the inode other than (0,0),   *)
(* and no update or delete of the inode was called since; calls for other  *)
(* inodes may have been made in between.                                   *)
(***************************************************************************)
C19_FillReportsLastUpdate ==
    \A t \in Threads :
        (Returned(t) /\ op[t] = "fill" /\ retval[t] = 0 /\ Store(t)) =>
            LET u == last_update[inode[t].i_ino]
            IN  (u.present /\ Present(u.atime)) =>
                    inode[t].i_atime = u.atime

(***************************************************************************)
(* C20. mi_sem is held only inside nilfs_atime_get_block: a thread that    *)
(* has left it, with the block or with an error, has called up_write as    *)
(* often as down_write and does not hold mi_sem, in particular when its    *)
(* fill, update or delete returns; and with every thread scheduled again   *)
(* and again, each fill, update and delete that was called returns.        *)
(***************************************************************************)
\* t is inside an interface function and outside nilfs_atime_get_block
OutsideGetBlock(t) ==
    /\ Running(t)
    /\ ~InGetBlock(t)

MiSemReleased ==
    \A t \in Threads :
        /\ OutsideGetBlock(t) =>
               Cardinality(CallsTo(t, "up_write"))
                   = Cardinality(CallsTo(t, "down_write"))
        /\ ~InGetBlock(t) => mi_sem # t

C20_ReleasedAndTerminates ==
    /\ []MiSemReleased
    /\ \A t \in Threads : Running(t) ~> Returned(t)

\* both threads have returned, one of them with the error of
\* nilfs_mdt_get_block, and mi_sem is free
C20_Witness ==
    /\ \A t \in Threads : Returned(t) /\ CallsTo(t, "up_write") # {}
    /\ Failed(1) # {} /\ retval[1] < 0
    /\ Acquired(2) # {} /\ retval[2] = 0
    /\ mi_sem = NoWriter

====
